---- MODULE Spec2Model ----
(***************************************************************************)
(* Model of src/app.py: the Flask service that extracts text from PDF      *)
(* documents with PyMuPDF.  The two POST handlers (/extract and /info) are *)
(* modelled step by step, the helper functions (get_pdf_from_request,      *)
(* is_native_pdf, parse_pages, extract_text, extract_blocks) as operators  *)
(* computed the way the Python code computes them.                         *)
(*                                                                         *)
(* Python strings are sequences of one-character strings.  An optional     *)
(* value (a Python value that may be None) is a sequence of length 0       *)
(* (None) or 1 (the value).                                                *)
(***************************************************************************)
EXTENDS Integers, Sequences, FiniteSets, TLC

\* ------------------------------------------------------------------------
\* Python built-ins used by the source
\* ------------------------------------------------------------------------

None == <<>>

Some(v) == <<v>>

\* Python truthiness of an optional string / bytes value: None and the empty
\* string are falsy.
Truthy(opt) == opt # None /\ opt[1] # <<>>

\* `a or b` on optional strings.
py_or(a, b) == IF Truthy(a) THEN a ELSE b

SetMin(S) == CHOOSE x \in S : \A y \in S : x <= y

SetMax(S) == CHOOSE x \in S : \A y \in S : x >= y

py_max(a, b) == IF a >= b THEN a ELSE b

py_min(a, b) == IF a <= b THEN a ELSE b

\* range(start, end) as a set.
py_range(start, end) == {i \in start .. (end - 1) : TRUE}

\* list(range(n))
py_list_range(n) == [i \in 1 .. n |-> i - 1]

\* Characters str.strip() removes (the whitespace characters used here).
IsSpace(c) == c \in {" ", "\t", "\n"}

\* str.strip(): drop leading and trailing whitespace.
RECURSIVE FirstNonSpace(_, _)
FirstNonSpace(s, i) ==
  IF i > Len(s) THEN i
  ELSE IF IsSpace(s[i]) THEN FirstNonSpace(s, i + 1) ELSE i

RECURSIVE LastNonSpace(_, _)
LastNonSpace(s, j) ==
  IF j < 1 THEN j
  ELSE IF IsSpace(s[j]) THEN LastNonSpace(s, j - 1) ELSE j

strip(s) ==
  LET a == FirstNonSpace(s, 1)
  IN  IF a > Len(s) THEN <<>> ELSE SubSeq(s, a, LastNonSpace(s, Len(s)))

\* str.split(sep) for a one-character separator: always at least one part.
RECURSIVE split(_, _)
split(s, sep) ==
  LET idx == {i \in 1 .. Len(s) : s[i] = sep}
  IN  IF idx = {} THEN <<s>>
      ELSE LET k == SetMin(idx)
           IN  <<SubSeq(s, 1, k - 1)>> \o split(SubSeq(s, k + 1, Len(s)), sep)

\* sep.join(parts)
RECURSIVE join(_, _)
join(sep, parts) ==
  IF parts = <<>> THEN <<>>
  ELSE IF Len(parts) = 1 THEN parts[1]
  ELSE parts[1] \o sep \o join(sep, Tail(parts))

Digits == {"0", "1", "2", "3", "4", "5", "6", "7", "8", "9"}

DigitVal(c) ==
  CASE c = "0" -> 0 [] c = "1" -> 1 [] c = "2" -> 2 [] c = "3" -> 3
    [] c = "4" -> 4 [] c = "5" -> 5 [] c = "6" -> 6 [] c = "7" -> 7
    [] c = "8" -> 8 [] c = "9" -> 9

RECURSIVE DecimalVal(_)
DecimalVal(s) ==
  IF s = <<>> THEN 0
  ELSE 10 * DecimalVal(SubSeq(s, 1, Len(s) - 1)) + DigitVal(s[Len(s)])

\* int(s): surrounding whitespace is ignored, the rest must be a non-empty
\* run of decimal digits, otherwise ValueError.  (Python also accepts a sign
\* and underscores; parse_pages never hands int() a "-", and the inputs used
\* here contain neither "+" nor "_".)
py_int(s) ==
  LET t == strip(s)
  IN  IF t # <<>> /\ \A i \in 1 .. Len(t) : t[i] \in Digits
      THEN [ok |-> TRUE, val |-> DecimalVal(t)]
      ELSE [ok |-> FALSE, val |-> 0]

\* sorted(set of integers)
RECURSIVE sorted(_)
sorted(S) ==
  IF S = {} THEN <<>>
  ELSE LET m == SetMin(S) IN <<m>> \o sorted(S \ {m})

\* A call's outcome: a returned value, or a raised exception.
Return(v) == [ok |-> TRUE, val |-> v, exc |-> ""]

Raise(e) == [ok |-> FALSE, val |-> <<>>, exc |-> e]

\* ------------------------------------------------------------------------
\* parse_pages (src/app.py 210-227)
\* ------------------------------------------------------------------------

\* The loop with the end of a range not capped to total_pages.
RECURSIVE parse_pages_loop_uncapped(_, _, _, _)
parse_pages_loop_uncapped(parts, i, pages, total_pages) ==
  IF i > Len(parts) THEN Return(sorted(pages))
  ELSE
    LET part == strip(parts[i])
    IN  IF \E k \in 1 .. Len(part) : part[k] = "-"
        THEN LET se == split(part, "-")
             IN  IF Len(se) # 2 THEN Raise("ValueError")
                 ELSE LET a == py_int(se[1])
                          b == py_int(se[2])
                      IN  IF ~a.ok \/ ~b.ok THEN Raise("ValueError")
                          ELSE LET start == py_max(0, a.val - 1)
                                   end   == b.val
                               IN  parse_pages_loop_uncapped(parts, i + 1,
                                       pages \cup py_range(start, end),
                                       total_pages)
        ELSE LET n == py_int(part)
             IN  IF ~n.ok THEN Raise("ValueError")
                 ELSE LET page_num == n.val - 1
                      IN  parse_pages_loop_uncapped(parts, i + 1,
                            IF 0 <= page_num /\ page_num < total_pages
                            THEN pages \cup {page_num} ELSE pages,
                            total_pages)

\* The for loop over the comma-separated parts, from part i on, with the
\* set `pages` accumulated so far.
RECURSIVE parse_pages_loop(_, _, _, _)
parse_pages_loop(parts, i, pages, total_pages) ==
  IF i > Len(parts) THEN Return(sorted(pages))
  ELSE
    LET part == strip(parts[i])
    IN  IF \E k \in 1 .. Len(part) : part[k] = "-"
        THEN LET se == split(part, "-")
             IN  IF Len(se) # 2 THEN Raise("ValueError")
                 ELSE LET a == py_int(se[1])
                          b == py_int(se[2])
                      IN  IF ~a.ok \/ ~b.ok THEN Raise("ValueError")
                          ELSE LET start == py_max(0, a.val - 1)
                                   end   == py_min(total_pages, b.val)
                               IN  parse_pages_loop(parts, i + 1,
                                       pages \cup py_range(start, end),
                                       total_pages)
        ELSE LET n == py_int(part)
             IN  IF ~n.ok THEN Raise("ValueError")
                 ELSE LET page_num == n.val - 1
                      IN  parse_pages_loop(parts, i + 1,
                            IF 0 <= page_num /\ page_num < total_pages
                            THEN pages \cup {page_num} ELSE pages,
                            total_pages)

parse_pages(pages_param, total_pages) ==
  parse_pages_loop(split(pages_param, ","), 1, {}, total_pages)

\* ------------------------------------------------------------------------
\* The PDF engine (PyMuPDF), as the handlers use it
\* ------------------------------------------------------------------------
\* Uploaded bytes are a record [kind, pages]: kind "empty" is b"" (falsy),
\* "garbage" is data fitz.open rejects, "pdf" is a document whose pages are
\* `pages`.  A page is a record
\*   [text   : what page.get_text() returns,
\*    blocks : what page.get_text("blocks") returns, a sequence of tuples
\*             <<x0, y0, x1, y1, text, block_no, block_type>>,
\*    fault  : "none", or the call the engine fails on for this page:
\*             "text" (get_text()) or "blocks" (get_text("blocks")),
\*    width, height : page.rect, images : len(page.get_images())].

\* fitz.open(stream=pdf_bytes, filetype="pdf")
fitz_open(bytes) ==
  IF bytes.kind = "pdf" THEN Return(bytes.pages) ELSE Raise("FileDataError")

\* page.get_text()
get_text(page) ==
  IF page.fault = "text" THEN Raise("RuntimeError") ELSE Return(page.text)

\* page.get_text("blocks")
get_text_blocks(page) ==
  IF page.fault = "blocks" THEN Raise("RuntimeError") ELSE Return(page.blocks)

\* doc[page_num], 0-based; a page number past the end raises IndexError.
doc_page(doc, page_num) ==
  IF 0 <= page_num /\ page_num < Len(doc)
  THEN Return(doc[page_num + 1]) ELSE Raise("IndexError")

\* ------------------------------------------------------------------------
\* get_pdf_from_request (src/app.py 39-56)
\* ------------------------------------------------------------------------
\* A request is a record
\*   [endpoint   : "extract" or "info",
\*    files_file : optional bytes, request.files["file"],
\*    json_file  : optional request.json["file"]: the base64 string, as the
\*                 sequence of its comma-separated segments, each segment a
\*                 record [valid, decoded]: whether base64.b64decode accepts
\*                 it, and the bytes it decodes to,
\*    form_pages, args_pages, form_format, args_format : optional strings].
get_pdf_from_request(r) ==
  IF r.files_file # None THEN Return(r.files_file)
  ELSE IF r.json_file # None
  THEN LET parts == r.json_file[1]
           file_data == IF Len(parts) > 1 THEN parts[2] ELSE parts[1]
       IN  IF file_data.valid THEN Return(Some(file_data.decoded))
           ELSE Raise("binascii.Error")
  ELSE Return(None)

\* `not pdf_bytes` is false: the bytes are neither None nor b"".
BytesTruthy(opt) == opt # None /\ opt[1].kind # "empty"

\* ------------------------------------------------------------------------
\* is_native_pdf (src/app.py 59-85)
\* ------------------------------------------------------------------------
\* A score is the exact rational [num, den]; the float comparisons of the
\* source are decided on the rationals (p/n > 0.8 iff 5p > 4n, and so on),
\* which agrees with the floats for every page count a model bound allows.
Ratio(n, d) == [num |-> n, den |-> d]

\* The for loop over the pages, from page i on.
RECURSIVE is_native_pdf_loop(_, _, _, _)
is_native_pdf_loop(doc, i, pages_with_text, total_text_length) ==
  IF i > Len(doc)
  THEN Return([pages_with_text |-> pages_with_text,
               total_text_length |-> total_text_length])
  ELSE LET t == get_text(doc[i])
       IN  IF ~t.ok THEN t
           ELSE LET text == strip(t.val)
                IN  is_native_pdf_loop(doc, i + 1,
                      IF Len(text) > 50 THEN pages_with_text + 1
                                        ELSE pages_with_text,
                      total_text_length + Len(text))

\* The classifier with the thresholds of the "native" rule not strict.
is_native_pdf_not_strict(doc) ==
  LET total_pages == Len(doc)
      l == is_native_pdf_loop(doc, 1, 0, 0)
  IN  IF ~l.ok THEN l
      ELSE IF total_pages = 0 THEN Return(<<Ratio(0, 1), "empty">>)
      ELSE LET pwt == l.val.pages_with_text
               ttl == l.val.total_text_length
           IN  IF 5 * pwt >= 4 * total_pages /\ ttl >= 100 * total_pages
               THEN Return(<<Ratio(1, 1), "native">>)
               ELSE IF 10 * pwt > 3 * total_pages \/ ttl > 50 * total_pages
               THEN Return(<<Ratio(pwt, total_pages), "mixed">>)
               ELSE Return(<<Ratio(0, 1), "scanned">>)

is_native_pdf(doc) ==
  LET total_pages == Len(doc)
      l == is_native_pdf_loop(doc, 1, 0, 0)
  IN  IF ~l.ok THEN l
      ELSE IF total_pages = 0 THEN Return(<<Ratio(0, 1), "empty">>)
      ELSE LET pwt == l.val.pages_with_text
               ttl == l.val.total_text_length
           IN  \* text_ratio > 0.8 and avg_text_per_page > 100
               IF 5 * pwt > 4 * total_pages /\ ttl > 100 * total_pages
               THEN Return(<<Ratio(1, 1), "native">>)
               \* text_ratio > 0.3 or avg_text_per_page > 50
               ELSE IF 10 * pwt > 3 * total_pages \/ ttl > 50 * total_pages
               THEN Return(<<Ratio(pwt, total_pages), "mixed">>)
               ELSE Return(<<Ratio(0, 1), "scanned">>)

\* round(x, 2), in hundredths: Python rounds half to even.
round2(x) ==
  LET q == (100 * x.num) \div x.den
      r == (100 * x.num) % x.den
  IN  IF 2 * r < x.den THEN q
      ELSE IF 2 * r > x.den THEN q + 1
      ELSE IF q % 2 = 0 THEN q ELSE q + 1

\* ------------------------------------------------------------------------
\* extract_text (src/app.py 230-237)
\* ------------------------------------------------------------------------
NL == <<"\n">>

NLNL == <<"\n", "\n">>

\* The loop leaving out the pages whose text is empty.
RECURSIVE extract_text_loop_skip_empty(_, _, _, _)
extract_text_loop_skip_empty(doc, pages, i, texts) ==
  IF i > Len(pages) THEN Return([text |-> join(NLNL, texts)])
  ELSE LET page == doc_page(doc, pages[i])
       IN  IF ~page.ok THEN page
           ELSE LET t == get_text(page.val)
                IN  IF ~t.ok THEN t
                    ELSE extract_text_loop_skip_empty(doc, pages, i + 1,
                           IF t.val = <<>> THEN texts
                           ELSE Append(texts, t.val))

RECURSIVE extract_text_loop(_, _, _, _)
extract_text_loop(doc, pages, i, texts) ==
  IF i > Len(pages) THEN Return([text |-> join(NLNL, texts)])
  ELSE LET page == doc_page(doc, pages[i])
       IN  IF ~page.ok THEN page
           ELSE LET t == get_text(page.val)
                IN  IF ~t.ok THEN t
                    ELSE extract_text_loop(doc, pages, i + 1,
                                           Append(texts, t.val))

extract_text(doc, pages) == extract_text_loop(doc, pages, 1, <<>>)

\* ------------------------------------------------------------------------
\* extract_blocks (src/app.py 240-276)
\* ------------------------------------------------------------------------
\* The inner loop keeping the text blocks whose trimmed text is empty.
RECURSIVE page_blocks_loop_keep_blank(_, _, _, _)
page_blocks_loop_keep_blank(blocks, j, page_text, page_blocks) ==
  IF j > Len(blocks)
  THEN [page_text |-> page_text, page_blocks |-> page_blocks]
  ELSE LET block == blocks[j]
           text == strip(block[5])
       IN  IF block[7] = 0
           THEN page_blocks_loop_keep_blank(blocks, j + 1,
                  Append(page_text, text),
                  Append(page_blocks,
                         [text |-> text,
                          bbox |-> [x0 |-> block[1], y0 |-> block[2],
                                    x1 |-> block[3], y1 |-> block[4]]]))
           ELSE page_blocks_loop_keep_blank(blocks, j + 1, page_text,
                                            page_blocks)

\* The inner loop over one page's blocks, from block j on.
RECURSIVE page_blocks_loop(_, _, _, _)
page_blocks_loop(blocks, j, page_text, page_blocks) ==
  IF j > Len(blocks)
  THEN [page_text |-> page_text, page_blocks |-> page_blocks]
  ELSE LET block == blocks[j]
           text == strip(block[5])
       IN  IF block[7] = 0 /\ text # <<>>
           THEN page_blocks_loop(blocks, j + 1,
                  Append(page_text, text),
                  Append(page_blocks,
                         [text |-> text,
                          bbox |-> [x0 |-> block[1], y0 |-> block[2],
                                    x1 |-> block[3], y1 |-> block[4]]]))
           ELSE page_blocks_loop(blocks, j + 1, page_text, page_blocks)

RECURSIVE extract_blocks_loop(_, _, _, _, _)
extract_blocks_loop(doc, pages, i, all_text, pages_detail) ==
  IF i > Len(pages)
  THEN Return([text |-> join(NLNL, all_text), pages_detail |-> pages_detail])
  ELSE LET page == doc_page(doc, pages[i])
       IN  IF ~page.ok THEN page
           ELSE LET b == get_text_blocks(page.val)
                IN  IF ~b.ok THEN b
                    ELSE LET p == page_blocks_loop(b.val, 1, <<>>, <<>>)
                         IN  extract_blocks_loop(doc, pages, i + 1,
                               Append(all_text, join(NL, p.page_text)),
                               Append(pages_detail,
                                      [page |-> pages[i] + 1,
                                       blocks |-> p.page_blocks]))

extract_blocks(doc, pages) == extract_blocks_loop(doc, pages, 1, <<>>, <<>>)

\* ------------------------------------------------------------------------
\* State of one worker handling a request
\* ------------------------------------------------------------------------
VARIABLES
  req,              \* the request being handled
  pc,               \* position in the handler
  pdf_bytes,        \* local: optional bytes
  pages_param,      \* local: optional string
  output_format,    \* local: optional string
  doc,              \* the fitz document: [state, pages], state "none" (not
                    \* opened), "open" or "closed"
  total_pages,      \* local
  pages_to_extract, \* local: sequence of 0-based page numbers
  native_score,     \* local: rational
  pdf_type,         \* local: label
  result,           \* local: what extract_text / extract_blocks returned
  pages_info,       \* local of info()
  resp,             \* the HTTP response: [status, body], status 0 until sent
  prev              \* optional [req, resp, pages]: the last successful
                    \* exchange of the session and the pages it selected,
                    \* for comparing two requests

vars == <<req, pc, pdf_bytes, pages_param, output_format, doc, total_pages,
          pages_to_extract, native_score, pdf_type, result, pages_info,
          resp, prev>>

TEXT == <<"t", "e", "x", "t">>

BLOCKS == <<"b", "l", "o", "c", "k", "s">>

NoDoc == [state |-> "none", pages |-> <<>>]

NoResp == [status |-> 0, body |-> <<>>]

\* The state in which the handler of request r is entered.
Start(r) ==
  /\ req = r
  /\ pc = "start"
  /\ pdf_bytes = None
  /\ pages_param = None
  /\ output_format = None
  /\ doc = NoDoc
  /\ total_pages = 0
  /\ pages_to_extract = <<>>
  /\ native_score = Ratio(0, 1)
  /\ pdf_type = ""
  /\ result = [text |-> <<>>]
  /\ pages_info = <<>>
  /\ resp = NoResp
  /\ prev = None

\* ------------------------------------------------------------------------
\* Responses
\* ------------------------------------------------------------------------

\* src/app.py 105-108
extract_missing_response ==
  [status |-> 400,
   body |-> [error |-> "Aucun fichier PDF fourni",
             usage |-> "Envoyez un PDF via 'file' (multipart) ou en base64 (JSON)"]]

\* src/app.py 162-164
info_missing_response ==
  [status |-> 400, body |-> [error |-> "Aucun fichier PDF fourni"]]

\* The except clauses, src/app.py 146-150 and 203-207: str(e) is modelled by
\* the exception's class.
error_response(e) ==
  [status |-> 500, body |-> [success |-> FALSE, error |-> e]]

\* The response with needs_ocr set for every document that is not native.
extract_response_not_native(res, total, pages, type, score, format) ==
  [status |-> 200,
   body |-> [success |-> TRUE,
             text |-> res.text,
             pages_count |-> total,
             pages_extracted |-> Len(pages),
             characters_count |-> Len(res.text),
             pdf_type |-> type,
             native_score |-> round2(score),
             needs_ocr |-> (type # "native"),
             pages_detail |-> IF format = Some(BLOCKS)
                              THEN Some(res.pages_detail) ELSE None]]

\* src/app.py 134-144; native_score is in hundredths.
extract_response(res, total, pages, type, score, format) ==
  [status |-> 200,
   body |-> [success |-> TRUE,
             text |-> res.text,
             pages_count |-> total,
             pages_extracted |-> Len(pages),
             characters_count |-> Len(res.text),
             pdf_type |-> type,
             native_score |-> round2(score),
             needs_ocr |-> (type = "scanned"),
             pages_detail |-> IF format = Some(BLOCKS)
                              THEN Some(res.pages_detail) ELSE None]]

\* src/app.py 185-201 (the metadata mapping is copied through from the
\* engine and is not modelled).
info_response(info, type, score) ==
  [status |-> 200,
   body |-> [success |-> TRUE,
             pages_count |-> Len(info),
             pages |-> info,
             pdf_type |-> type,
             native_score |-> round2(score),
             needs_ocr |-> (type = "scanned")]]

\* ------------------------------------------------------------------------
\* extract() (src/app.py 88-150)
\* ------------------------------------------------------------------------

\* Lines 102-112: read the upload, answer 400 when there is none, read the
\* parameters.
ExtractGetPdf ==
  /\ pc = "start"
  /\ req.endpoint = "extract"
  /\ LET r == get_pdf_from_request(req)
     IN  IF ~r.ok
         THEN /\ resp' = error_response(r.exc)
              /\ pc' = "done"
              /\ UNCHANGED <<pdf_bytes, pages_param, output_format>>
         ELSE IF ~BytesTruthy(r.val)
         THEN /\ resp' = extract_missing_response
              /\ pc' = "done"
              /\ pdf_bytes' = r.val
              /\ UNCHANGED <<pages_param, output_format>>
         ELSE /\ pdf_bytes' = r.val
              /\ pages_param' = py_or(req.form_pages, req.args_pages)
              /\ output_format' = py_or(py_or(req.form_format, req.args_format),
                                        Some(TEXT))
              /\ pc' = "open"
              /\ UNCHANGED resp
  /\ UNCHANGED <<req, doc, total_pages, pages_to_extract, native_score,
                 pdf_type, result, pages_info, prev>>

\* Lines 115-116: open the document.
ExtractOpen ==
  /\ pc = "open"
  /\ req.endpoint = "extract"
  /\ LET d == fitz_open(pdf_bytes[1])
     IN  IF ~d.ok
         THEN /\ resp' = error_response(d.exc)
              /\ pc' = "done"
              /\ UNCHANGED <<doc, total_pages>>
         ELSE /\ doc' = [state |-> "open", pages |-> d.val]
              /\ total_pages' = Len(d.val)
              /\ pc' = "select"
              /\ UNCHANGED resp
  /\ UNCHANGED <<req, pdf_bytes, pages_param, output_format, pages_to_extract,
                 native_score, pdf_type, result, pages_info, prev>>

\* Lines 119-121: the pages to extract.
ExtractSelect ==
  /\ pc = "select"
  /\ IF Truthy(pages_param)
     THEN LET p == parse_pages(pages_param[1], total_pages)
          IN  IF ~p.ok
              THEN /\ resp' = error_response(p.exc)
                   /\ pc' = "done"
                   /\ UNCHANGED pages_to_extract
              ELSE /\ pages_to_extract' = p.val
                   /\ pc' = "classify"
                   /\ UNCHANGED resp
     ELSE /\ pages_to_extract' = py_list_range(total_pages)
          /\ pc' = "classify"
          /\ UNCHANGED resp
  /\ UNCHANGED <<req, pdf_bytes, pages_param, output_format, doc, total_pages,
                 native_score, pdf_type, result, pages_info, prev>>

\* The step classifying only the pages selected for extraction.
ExtractClassify_selected ==
  /\ pc = "classify"
  /\ req.endpoint = "extract"
  /\ LET c == is_native_pdf([k \in 1 .. Len(pages_to_extract) |->
                               doc.pages[pages_to_extract[k] + 1]])
     IN  IF ~c.ok
         THEN /\ resp' = error_response(c.exc)
              /\ pc' = "done"
              /\ UNCHANGED <<native_score, pdf_type>>
         ELSE /\ native_score' = c.val[1]
              /\ pdf_type' = c.val[2]
              /\ pc' = "dispatch"
              /\ UNCHANGED resp
  /\ UNCHANGED <<req, pdf_bytes, pages_param, output_format, doc, total_pages,
                 pages_to_extract, result, pages_info, prev>>

\* Line 124: classify the document.
ExtractClassify ==
  /\ pc = "classify"
  /\ req.endpoint = "extract"
  /\ LET c == is_native_pdf(doc.pages)
     IN  IF ~c.ok
         THEN /\ resp' = error_response(c.exc)
              /\ pc' = "done"
              /\ UNCHANGED <<native_score, pdf_type>>
         ELSE /\ native_score' = c.val[1]
              /\ pdf_type' = c.val[2]
              /\ pc' = "dispatch"
              /\ UNCHANGED resp
  /\ UNCHANGED <<req, pdf_bytes, pages_param, output_format, doc, total_pages,
                 pages_to_extract, result, pages_info, prev>>

\* Lines 127-130: extract in the requested format.
ExtractDispatch ==
  /\ pc = "dispatch"
  /\ LET r == IF output_format = Some(BLOCKS)
              THEN extract_blocks(doc.pages, pages_to_extract)
              ELSE extract_text(doc.pages, pages_to_extract)
     IN  IF ~r.ok
         THEN /\ resp' = error_response(r.exc)
              /\ pc' = "done"
              /\ UNCHANGED result
         ELSE /\ result' = r.val
              /\ pc' = "close"
              /\ UNCHANGED resp
  /\ UNCHANGED <<req, pdf_bytes, pages_param, output_format, doc, total_pages,
                 pages_to_extract, native_score, pdf_type, pages_info, prev>>

\* Line 132: doc.close()
ExtractClose ==
  /\ pc = "close"
  /\ req.endpoint = "extract"
  /\ doc' = [doc EXCEPT !.state = "closed"]
  /\ pc' = "respond"
  /\ UNCHANGED <<req, pdf_bytes, pages_param, output_format, total_pages,
                 pages_to_extract, native_score, pdf_type, result, pages_info,
                 resp, prev>>

\* Lines 134-144: the success response.
ExtractRespond ==
  /\ pc = "respond"
  /\ req.endpoint = "extract"
  /\ resp' = extract_response(result, total_pages, pages_to_extract, pdf_type,
                              native_score, output_format)
  /\ pc' = "done"
  /\ UNCHANGED <<req, pdf_bytes, pages_param, output_format, doc, total_pages,
                 pages_to_extract, native_score, pdf_type, result, pages_info,
                 prev>>

NextExtract ==
  \/ ExtractGetPdf
  \/ ExtractOpen
  \/ ExtractSelect
  \/ ExtractClassify
  \/ ExtractDispatch
  \/ ExtractClose
  \/ ExtractRespond

\* ------------------------------------------------------------------------
\* info() (src/app.py 153-207)
\* ------------------------------------------------------------------------

\* Lines 159-164
InfoGetPdf ==
  /\ pc = "start"
  /\ req.endpoint = "info"
  /\ LET r == get_pdf_from_request(req)
     IN  IF ~r.ok
         THEN /\ resp' = error_response(r.exc)
              /\ pc' = "done"
              /\ UNCHANGED pdf_bytes
         ELSE IF ~BytesTruthy(r.val)
         THEN /\ resp' = info_missing_response
              /\ pc' = "done"
              /\ pdf_bytes' = r.val
         ELSE /\ pdf_bytes' = r.val
              /\ pc' = "open"
              /\ UNCHANGED resp
  /\ UNCHANGED <<req, pages_param, output_format, doc, total_pages,
                 pages_to_extract, native_score, pdf_type, result, pages_info,
                 prev>>

\* Lines 166-167
InfoOpen ==
  /\ pc = "open"
  /\ req.endpoint = "info"
  /\ LET d == fitz_open(pdf_bytes[1])
     IN  IF ~d.ok
         THEN /\ resp' = error_response(d.exc)
              /\ pc' = "done"
              /\ UNCHANGED doc
         ELSE /\ doc' = [state |-> "open", pages |-> d.val]
              /\ pc' = "classify"
              /\ UNCHANGED resp
  /\ UNCHANGED <<req, pdf_bytes, pages_param, output_format, total_pages,
                 pages_to_extract, native_score, pdf_type, result, pages_info,
                 prev>>

\* Line 170
InfoClassify ==
  /\ pc = "classify"
  /\ req.endpoint = "info"
  /\ LET c == is_native_pdf(doc.pages)
     IN  IF ~c.ok
         THEN /\ resp' = error_response(c.exc)
              /\ pc' = "done"
              /\ UNCHANGED <<native_score, pdf_type>>
         ELSE /\ native_score' = c.val[1]
              /\ pdf_type' = c.val[2]
              /\ pc' = "pages"
              /\ UNCHANGED resp
  /\ UNCHANGED <<req, pdf_bytes, pages_param, output_format, doc, total_pages,
                 pages_to_extract, result, pages_info, prev>>

\* Lines 173-181: the loop building pages_info, from page i on.
RECURSIVE pages_info_loop(_, _, _)
pages_info_loop(d, i, info) ==
  IF i > Len(d) THEN Return(info)
  ELSE LET t == get_text(d[i])
       IN  IF ~t.ok THEN t
           ELSE pages_info_loop(d, i + 1,
                  Append(info, [page |-> i,
                                width |-> d[i].width,
                                height |-> d[i].height,
                                has_text |-> Len(strip(t.val)) > 50,
                                has_images |-> d[i].images > 0]))

InfoPages ==
  /\ pc = "pages"
  /\ LET p == pages_info_loop(doc.pages, 1, <<>>)
     IN  IF ~p.ok
         THEN /\ resp' = error_response(p.exc)
              /\ pc' = "done"
              /\ UNCHANGED pages_info
         ELSE /\ pages_info' = p.val
              /\ pc' = "close"
              /\ UNCHANGED resp
  /\ UNCHANGED <<req, pdf_bytes, pages_param, output_format, doc, total_pages,
                 pages_to_extract, native_score, pdf_type, result, prev>>

\* Line 183
InfoClose ==
  /\ pc = "close"
  /\ req.endpoint = "info"
  /\ doc' = [doc EXCEPT !.state = "closed"]
  /\ pc' = "respond"
  /\ UNCHANGED <<req, pdf_bytes, pages_param, output_format, total_pages,
                 pages_to_extract, native_score, pdf_type, result, pages_info,
                 resp, prev>>

\* Lines 185-201
InfoRespond ==
  /\ pc = "respond"
  /\ req.endpoint = "info"
  /\ resp' = info_response(pages_info, pdf_type, native_score)
  /\ pc' = "done"
  /\ UNCHANGED <<req, pdf_bytes, pages_param, output_format, doc, total_pages,
                 pages_to_extract, native_score, pdf_type, result, pages_info,
                 prev>>

NextInfo ==
  \/ InfoGetPdf
  \/ InfoOpen
  \/ InfoClassify
  \/ InfoPages
  \/ InfoClose
  \/ InfoRespond

Next == NextExtract \/ NextInfo

\* ------------------------------------------------------------------------
\* Families of requests the handlers are started on
\* ------------------------------------------------------------------------
SeqsUpTo(S, n) == UNION {[1 .. k -> S] : k \in 0 .. n}

Str(n, c) == [i \in 1 .. n |-> c]

\* str(n) for n >= 0
DigitChar(d) ==
  CASE d = 0 -> "0" [] d = 1 -> "1" [] d = 2 -> "2" [] d = 3 -> "3"
    [] d = 4 -> "4" [] d = 5 -> "5" [] d = 6 -> "6" [] d = 7 -> "7"
    [] d = 8 -> "8" [] d = 9 -> "9"

RECURSIVE py_str(_)
py_str(n) ==
  IF n < 10 THEN <<DigitChar(n)>>
  ELSE py_str(n \div 10) \o <<DigitChar(n % 10)>>

Page(text, blocks, fault, images) ==
  [text |-> text, blocks |-> blocks, fault |-> fault,
   width |-> 595, height |-> 842, images |-> images]

Pdf(pages) == [kind |-> "pdf", pages |-> pages]

Garbage == [kind |-> "garbage", pages |-> <<>>]

EmptyBytes == [kind |-> "empty", pages |-> <<>>]

Request(endpoint, files, json, fpages, apages, fformat, aformat) ==
  [endpoint |-> endpoint, files_file |-> files, json_file |-> json,
   form_pages |-> fpages, args_pages |-> apages,
   form_format |-> fformat, args_format |-> aformat]

\* A multipart upload with the parameters in the form.
Multipart(endpoint, bytes, pages, format) ==
  Request(endpoint, Some(bytes), None, pages, None, format, None)

\* Blocks as page.get_text("blocks") gives them.
BlockTitle == <<10, 20, 110, 40, <<"H", "i">>, 0, 0>>

BlockBody == <<10, 50, 120, 70, <<" ", "o", "k", " ", "\n">>, 1, 0>>

BlockBlank == <<10, 80, 130, 90, <<" ", "\n">>, 2, 0>>

BlockImage == <<10, 100, 140, 200, <<"<", "i", "m", "g", ">">>, 3, 1>>

BlockEmpty == <<10, 210, 150, 220, <<>>, 4, 0>>

\* Page texts around the thresholds of is_native_pdf; the padding is
\* whitespace that strip() removes.
TextOfLen(n) == <<" ">> \o Str(n, "a") \o <<"\n">>

PageScan == Page(<<>>, <<BlockImage>>, "none", 1)

PageShort == Page(<<"a", "b", "\n">>, <<BlockTitle>>, "none", 0)

PageText == Page(TextOfLen(150), <<BlockTitle, BlockBody>>, "none", 0)

PageFaultText == Page(TextOfLen(150), <<BlockTitle>>, "text", 0)

PageFaultBlocks == Page(TextOfLen(150), <<BlockTitle>>, "blocks", 0)

\* --- the handlers' family: uploads of every kind, page expressions and
\* formats of every kind
MaxPages == 2

HandlerDocs ==
  SeqsUpTo({PageScan, PageText, PageFaultText, PageFaultBlocks}, MaxPages)

HandlerUploads ==
  {<<None, None>>,
   <<Some(EmptyBytes), None>>,
   <<Some(Garbage), None>>,
   <<None, Some(<<[valid |-> TRUE, decoded |-> Pdf(<<PageText>>)]>>)>>,
   <<None, Some(<<[valid |-> FALSE, decoded |-> EmptyBytes],
                  [valid |-> TRUE, decoded |-> Pdf(<<PageScan>>)]>>)>>,
   <<None, Some(<<[valid |-> FALSE, decoded |-> EmptyBytes]>>)>>}
  \cup {<<Some(Pdf(d)), None>> : d \in HandlerDocs}

HandlerPageExprs ==
  {None, Some(<<>>), Some(<<"1">>), Some(<<"2", ",", "1">>), Some(<<"x">>),
   Some(<<"-", "3">>), Some(<<"2", "-">>), Some(<<"1", "-", "2", "-", "3">>),
   Some(<<"1", ",", ",", "2">>), Some(<<"1", "-", "5">>)}

HandlerFormats == {None, Some(TEXT), Some(BLOCKS), Some(<<"x", "m", "l">>)}

HandlerRequests ==
  {Request("extract", u[1], u[2], p, a, f, g) :
     u \in HandlerUploads, p \in HandlerPageExprs, a \in {None, Some(<<"2">>)},
     f \in HandlerFormats, g \in {None, Some(BLOCKS)}}
  \cup {Request("info", u[1], u[2], None, None, None, None) :
          u \in HandlerUploads}

\* --- parse_pages: every string over the alphabet, up to a length
MaxParseLen == 4

MaxParsePages == 2

ParseAlphabet == {"0", "1", "2", "-", ",", " ", "x"}

ParseRequests ==
  {Multipart("extract", Pdf(Str(n, PageShort)), Some(s), None) :
     n \in 0 .. MaxParsePages, s \in SeqsUpTo(ParseAlphabet, MaxParseLen)}

\* --- is_native_pdf: documents of up to MaxClassifyPages pages whose trimmed
\* text lengths are drawn from ClassifyLens; c[k] pages of length
\* ClassifyLens[k]
MaxClassifyPages == 10

ClassifyLens == <<0, 50, 51, 100, 101, 150>>

ClassifyPage(k) == Page(TextOfLen(ClassifyLens[k]), <<>>, "none", 0)

ClassifyDoc(c) ==
  Str(c[1], ClassifyPage(1)) \o Str(c[2], ClassifyPage(2))
    \o Str(c[3], ClassifyPage(3)) \o Str(c[4], ClassifyPage(4))
    \o Str(c[5], ClassifyPage(5)) \o Str(c[6], ClassifyPage(6))

\* --- extract_blocks: two-page documents, the first page with any blocks
MaxBlocks == 2

BlockSamples == {BlockTitle, BlockBody, BlockBlank, BlockImage, BlockEmpty}

BlockDocs ==
  {<<Page(<<>>, b, "none", 0), p>> :
     b \in SeqsUpTo(BlockSamples, MaxBlocks),
     p \in {PageScan, PageText}}

BlockRequests ==
  {Multipart("extract", Pdf(d), p, Some(BLOCKS)) :
     d \in BlockDocs,
     p \in {None, Some(<<"2">>), Some(<<"2", ",", "1">>)}}

\* --- sessions: several requests about one document
MaxSessionPages == 2

SessionDocs ==
  SeqsUpTo({PageScan, PageShort, PageText,
            Page(TextOfLen(51), <<BlockBlank, BlockBody>>, "none", 0)},
           MaxSessionPages)

\* "1-n"
FullRange(n) == <<"1", "-">> \o py_str(n)

SessionRequests(bytes) ==
  {Request("extract", Some(bytes), None, p, None, None, g) :
     p \in {None, Some(<<>>), Some(FullRange(Len(bytes.pages))),
            Some(<<"1">>), Some(<<"2">>)},
     g \in {None, Some(BLOCKS)}}
  \cup {Request("info", Some(bytes), None, None, None, None, None)}

\* A further request of the same client about the same upload: the routes
\* (src/app.py 88 and 153) dispatch it to its handler with fresh locals.  The
\* last successful exchange is remembered in prev.
NewRequest ==
  /\ pc = "done"
  /\ \E r \in SessionRequests(req.files_file[1]) :
       /\ req' = r
       /\ pc' = "start"
       /\ pdf_bytes' = None
       /\ pages_param' = None
       /\ output_format' = None
       /\ doc' = NoDoc
       /\ total_pages' = 0
       /\ pages_to_extract' = <<>>
       /\ native_score' = Ratio(0, 1)
       /\ pdf_type' = ""
       /\ result' = [text |-> <<>>]
       /\ pages_info' = <<>>
       /\ resp' = NoResp
       /\ prev' = IF resp.status = 200
                  THEN Some([req |-> req, resp |-> resp,
                             pages |-> pages_to_extract])
                  ELSE prev

NextSession == Next \/ NewRequest

\* ------------------------------------------------------------------------
\* Specifications: the handlers, started on families of requests
\* ------------------------------------------------------------------------
Init == \E r \in HandlerRequests : Start(r)

Spec == Init /\ [][Next]_vars

InitParse == \E r \in ParseRequests : Start(r)

SpecParse == InitParse /\ [][NextExtract]_vars

InitClassify ==
  \E c1 \in 0 .. MaxClassifyPages :
  \E c2 \in 0 .. MaxClassifyPages - c1 :
  \E c3 \in 0 .. MaxClassifyPages - c1 - c2 :
  \E c4 \in 0 .. MaxClassifyPages - c1 - c2 - c3 :
  \E c5 \in 0 .. MaxClassifyPages - c1 - c2 - c3 - c4 :
  \E c6 \in 0 .. MaxClassifyPages - c1 - c2 - c3 - c4 - c5 :
  \E e \in {"extract", "info"} :
    Start(Multipart(e, Pdf(ClassifyDoc(<<c1, c2, c3, c4, c5, c6>>)),
                    None, None))

SpecClassify == InitClassify /\ [][Next]_vars

InitBlocks == \E r \in BlockRequests : Start(r)

SpecBlocks == InitBlocks /\ [][NextExtract]_vars

InitSession ==
  \E d \in SessionDocs : \E r \in SessionRequests(Pdf(d)) : Start(r)

SpecSession == InitSession /\ [][NextSession]_vars

\* ------------------------------------------------------------------------
\* Page expressions, as the specification describes them
\* ------------------------------------------------------------------------
CommaPos(s) == {i \in 1 .. Len(s) : s[i] = ","}

TokenStarts(s) == {1} \cup {i + 1 : i \in CommaPos(s)}

TokenEnd(s, a) ==
  LET later == {c \in CommaPos(s) : c >= a}
  IN  IF later = {} THEN Len(s) ELSE SetMin(later) - 1

\* The comma-separated tokens of s.
Tokens(s) == {SubSeq(s, a, TokenEnd(s, a)) : a \in TokenStarts(s)}

IsNumber(t) == t # <<>> /\ \A i \in 1 .. Len(t) : t[i] \in Digits

RECURSIVE Pow10(_)
Pow10(k) == IF k = 0 THEN 1 ELSE 10 * Pow10(k - 1)

RECURSIVE ValueOf(_)
ValueOf(t) ==
  IF t = <<>> THEN 0
  ELSE DigitVal(Head(t)) * Pow10(Len(t) - 1) + ValueOf(Tail(t))

\* t is the range a-b with its "-" at position k.
IsRangeAt(t, k) ==
  /\ t[k] = "-"
  /\ IsNumber(SubSeq(t, 1, k - 1))
  /\ IsNumber(SubSeq(t, k + 1, Len(t)))

IsRange(t) == \E k \in 1 .. Len(t) : IsRangeAt(t, k)

WellFormedExpr(s) == \A t \in Tokens(s) : IsNumber(t) \/ IsRange(t)

\* Token t selects the 0-based index i of a document of n pages.
SelectedBy(t, i, n) ==
  \/ IsNumber(t) /\ ValueOf(t) = i + 1
  \/ \E k \in 1 .. Len(t) :
       /\ IsRangeAt(t, k)
       /\ py_max(ValueOf(SubSeq(t, 1, k - 1)), 1) <= i + 1
       /\ i + 1 <= py_min(ValueOf(SubSeq(t, k + 1, Len(t))), n)

ExpectedPages(s, n) ==
  {i \in 0 .. n - 1 : \E t \in Tokens(s) : SelectedBy(t, i, n)}

IsAscending(q) == \A i \in 1 .. Len(q) - 1 : q[i] < q[i + 1]

\* A malformed token: empty, more than one "-", a range with a missing
\* bound, or non-numeric text.
MalformedToken(t) ==
  LET dashes == {i \in 1 .. Len(t) : t[i] = "-"}
  IN  \/ t = <<>>
      \/ Cardinality(dashes) > 1
      \/ \E k \in dashes : k = 1 \/ k = Len(t)
      \/ \E i \in 1 .. Len(t) : t[i] \notin Digits \cup {"-", " "}

HasMalformedToken(s) == \E t \in Tokens(s) : MalformedToken(t)

\* The extract handler is past the page selection.
Selected ==
  /\ req.endpoint = "extract"
  /\ \/ pc \in {"classify", "dispatch", "close", "respond"}
     \/ pc = "done" /\ doc.state # "none"

Answered == pc = "done"

Succeeded == pc = "done" /\ resp.status = 200

\* ------------------------------------------------------------------------
\* C1: every request that opened the document has closed it when it is
\* answered, on the success path and on every failure path.
\* ------------------------------------------------------------------------
C1_ClosedOnEveryExit ==
  Answered /\ doc.state # "none" => doc.state = "closed"

\* ------------------------------------------------------------------------
\* C2: a /extract request whose page expression has a malformed token is
\* answered with a client error (4xx), never with the 500 response.
\* ------------------------------------------------------------------------
C2_MalformedIsClientError ==
  (Answered /\ Selected /\ Truthy(pages_param)
     /\ HasMalformedToken(pages_param[1]))
  => (resp.status >= 400 /\ resp.status <= 499)

\* The response reports an input-validation error: the 400 for a missing
\* upload, or the ValueError that only parse_pages raises.
ReportsValidationError ==
  \/ resp.status = 400
  \/ resp.status = 500 /\ resp.body.error = "ValueError"

\* ------------------------------------------------------------------------
\* C3: input-validation errors (no document bytes, malformed page
\* expression) are reported before the document is opened.
\* ------------------------------------------------------------------------
C3_ValidationBeforeOpen ==
  (Answered /\ req.endpoint = "extract" /\ ReportsValidationError)
  => doc.state = "none"

RequestedFormat == py_or(req.form_format, req.args_format)

\* ------------------------------------------------------------------------
\* C4: a /extract request whose format is given and is neither "text" nor
\* "blocks" fails with an error; it is not processed as the text mode.
\* ------------------------------------------------------------------------
C4_FormatValidated ==
  (Answered /\ req.endpoint = "extract" /\ Truthy(RequestedFormat)
     /\ RequestedFormat \notin {Some(TEXT), Some(BLOCKS)})
  => resp.status # 200

\* ------------------------------------------------------------------------
\* C5: on an expression of well-formed tokens parse_pages does not raise
\* and returns the ascending, duplicate-free list of the indices in
\* [0, total_pages) that some token selects: a single number n selects
\* n - 1, a range a-b selects max(a,1)-1 .. min(b,total_pages)-1.
\* ------------------------------------------------------------------------
C5_ParsePages ==
  (Selected /\ Truthy(pages_param) /\ WellFormedExpr(pages_param[1]))
  => /\ resp.status \in {0, 200}
     /\ IsAscending(pages_to_extract)
     /\ {pages_to_extract[i] : i \in 1 .. Len(pages_to_extract)}
          = ExpectedPages(pages_param[1], total_pages)
     /\ \A i \in 1 .. Len(pages_to_extract) :
          0 <= pages_to_extract[i] /\ pages_to_extract[i] < total_pages

\* A range reaching past the last page was clamped, in a finished request.
C5_Witness ==
  /\ Succeeded
  /\ pages_param = Some(<<"1", "-", "2", "0">>)
  /\ total_pages = 2
  /\ pages_to_extract = <<0, 1>>

TrimmedLen(page) == Len(strip(page.text))

PagesWithText(d) == Cardinality({i \in 1 .. Len(d) : TrimmedLen(d[i]) > 50})

RECURSIVE TotalTextLength(_, _)
TotalTextLength(d, k) ==
  IF k = 0 THEN 0 ELSE TotalTextLength(d, k - 1) + TrimmedLen(d[k])

\* p / q > a / b, for positive q and b
RatioGreater(p, q, a, b) == p * b > a * q

SameRatio(x, y) == x.num * y.den = y.num * x.den

\* The decision table: <<score, label>>.
DecisionTable(d) ==
  LET n == Len(d)
      pwt == PagesWithText(d)
      ttl == TotalTextLength(d, n)
  IN  IF n = 0 THEN <<Ratio(0, 1), "empty">>
      ELSE IF RatioGreater(pwt, n, 8, 10) /\ RatioGreater(ttl, n, 100, 1)
      THEN <<Ratio(1, 1), "native">>
      ELSE IF RatioGreater(pwt, n, 3, 10) \/ RatioGreater(ttl, n, 50, 1)
      THEN <<Ratio(pwt, n), "mixed">>
      ELSE <<Ratio(0, 1), "scanned">>

\* The handler is past the classification.
Classified ==
  \/ pc \in {"dispatch", "pages", "close", "respond"}
  \/ Succeeded

C7_SameClassification ==
  (Succeeded /\ prev # None
     /\ get_pdf_from_request(prev[1].req) = get_pdf_from_request(req))
  => /\ resp.body.pdf_type = prev[1].resp.body.pdf_type
     /\ resp.body.native_score = prev[1].resp.body.native_score
     /\ resp.body.needs_ocr = prev[1].resp.body.needs_ocr

\* /extract of the first page alone, a scanned page, after /info of the
\* two-page document.
C7_Witness ==
  /\ Succeeded
  /\ req.endpoint = "extract"
  /\ req.form_pages = Some(<<"1">>)
  /\ doc.pages = <<PageScan, PageText>>
  /\ prev # None
  /\ prev[1].req.endpoint = "info"
  /\ resp.body.pdf_type = "mixed"
  /\ resp.body.native_score = 50

Qualifies(block) == block[7] = 0 /\ strip(block[5]) # <<>>

Emitted(block) ==
  [text |-> strip(block[5]),
   bbox |-> [x0 |-> block[1], y0 |-> block[2],
             x1 |-> block[3], y1 |-> block[4]]]

\* The qualifying blocks of a page, as emitted.
QualifyingBlocks(page) ==
  LET q == SelectSeq(page.blocks, Qualifies)
  IN  [j \in 1 .. Len(q) |-> Emitted(q[j])]

\* The texts of the qualifying blocks of the selected pages from the k-th
\* on, a newline between the blocks of a page and two between pages.
RECURSIVE FlatText(_, _, _)
FlatText(d, sel, k) ==
  IF k > Len(sel) THEN <<>>
  ELSE LET q == QualifyingBlocks(d[sel[k] + 1])
           here == join(NL, [j \in 1 .. Len(q) |-> q[j].text])
       IN  IF k = Len(sel) THEN here
           ELSE here \o NLNL \o FlatText(d, sel, k + 1)

\* ------------------------------------------------------------------------
\* C8: extract_blocks emits, for every selected page, exactly the blocks
\* of kind text whose trimmed text is not empty, in the engine's order and
\* with their bounding boxes unchanged; image blocks and blocks of empty
\* text appear neither in pages_detail nor in the text.
\* ------------------------------------------------------------------------
C8_OnlyTextBlocks ==
  (Succeeded /\ req.endpoint = "extract" /\ output_format = Some(BLOCKS))
  => LET detail == resp.body.pages_detail[1]
     IN  /\ Len(detail) = Len(pages_to_extract)
         /\ \A k \in 1 .. Len(detail) :
              /\ detail[k].page = pages_to_extract[k] + 1
              /\ detail[k].blocks
                   = QualifyingBlocks(doc.pages[pages_to_extract[k] + 1])
              /\ \A j \in 1 .. Len(detail[k].blocks) :
                   detail[k].blocks[j].text # <<>>
         /\ resp.body.text = FlatText(doc.pages, pages_to_extract, 1)

\* A page of an image block and a text block: only the text block is
\* emitted, trimmed, with its bounding box.
C8_Witness ==
  /\ Succeeded
  /\ output_format = Some(BLOCKS)
  /\ pages_to_extract = <<0, 1>>
  /\ doc.pages[1].blocks = <<BlockImage, BlockBody>>
  /\ resp.body.pages_detail[1][1].blocks
       = <<[text |-> <<"o", "k">>,
            bbox |-> [x0 |-> 10, y0 |-> 50, x1 |-> 120, y1 |-> 70]]>>

\* ------------------------------------------------------------------------
\* C9: in every successful response of /extract and /info, needs_ocr is
\* true exactly when pdf_type is "scanned".
\* ------------------------------------------------------------------------
C9_NeedsOcr ==
  Succeeded => (resp.body.needs_ocr <=> resp.body.pdf_type = "scanned")

C9_Witness ==
  /\ Succeeded
  /\ req.endpoint = "extract"
  /\ resp.body.pdf_type = "scanned"
  /\ resp.body.needs_ocr

EffectivePages(r) == py_or(r.form_pages, r.args_pages)

EffectiveFormat(r) == py_or(py_or(r.form_format, r.args_format), Some(TEXT))

RECURSIVE AllPagesText(_, _)
AllPagesText(d, k) ==
  IF k = 0 THEN <<>>
  ELSE IF k = 1 THEN d[1].text
  ELSE AllPagesText(d, k - 1) \o NLNL \o d[k].text

\* The two requests: one names no pages, the other the full range.
FullAndDefault(r1, r2, n) ==
  /\ r1.endpoint = "extract" /\ r2.endpoint = "extract"
  /\ get_pdf_from_request(r1) = get_pdf_from_request(r2)
  /\ EffectiveFormat(r1) = EffectiveFormat(r2)
  /\ ~Truthy(EffectivePages(r1))
  /\ EffectivePages(r2) = Some(FullRange(n))

\* ------------------------------------------------------------------------
\* C10: on a document of n pages, /extract without a page expression
\* (absent or empty) and /extract of "1-n" select the same indices 0..n-1
\* and return the same text, pages_extracted and characters_count; in text
\* mode the text is the page texts in page order joined by two newlines,
\* one segment per page even when a page's text is empty.
\* ------------------------------------------------------------------------
C10_FullRangeIsDefault ==
  (Succeeded /\ prev # None
     /\ (FullAndDefault(req, prev[1].req, Len(doc.pages))
         \/ FullAndDefault(prev[1].req, req, Len(doc.pages))))
  => /\ pages_to_extract = [i \in 1 .. Len(doc.pages) |-> i - 1]
     /\ prev[1].pages = pages_to_extract
     /\ resp.body.text = prev[1].resp.body.text
     /\ resp.body.pages_extracted = prev[1].resp.body.pages_extracted
     /\ resp.body.characters_count = prev[1].resp.body.characters_count
     /\ resp.body.pages_extracted = Len(doc.pages)
     /\ EffectiveFormat(req) = Some(TEXT)
        => /\ resp.body.text = AllPagesText(doc.pages, Len(doc.pages))
           /\ resp.body.characters_count = Len(resp.body.text)

\* No page expression after "1-2", on a document whose first page has no
\* text: the empty segment is kept.
C10_Witness ==
  /\ Succeeded
  /\ req.endpoint = "extract"
  /\ req.form_pages = None
  /\ EffectiveFormat(req) = Some(TEXT)
  /\ prev # None
  /\ prev[1].req.form_pages = Some(<<"1", "-", "2">>)
  /\ EffectiveFormat(prev[1].req) = Some(TEXT)
  /\ doc.pages = <<PageScan, PageShort>>
  /\ resp.body.text = <<"\n", "\n", "a", "b", "\n">>
  /\ resp.body.pages_extracted = 2

====
